---- MODULE Spec2Model ----
(***************************************************************************)
(* The asynchronous trace pipeline of package log (src/log.go): the        *)
(* process-wide logger state, the buffered trace channel, the background   *)
(* logRoutine, StartLog / CloseLog and the logging entry points.           *)
(*                                                                         *)
(* Every Go statement that reads or writes a package-level variable, or    *)
(* operates on a channel or a file, is one step of the thread that runs    *)
(* it, so that the interleavings of caller threads and logRoutine          *)
(* goroutines are those of the program.  The package-level variables are   *)
(* accessed without any lock: a read that races with a write may return    *)
(* the value written or the value the reader saw before (RacyLoad).        *)
(***************************************************************************)
EXTENDS Naturals, Sequences, FiniteSets

\* ------------------------------------------------------------------ bounds

\* Trace events constructed in one run.
MaxEvents == 2

\* StartLog calls that get past the "already allocated" test in one run.
MaxStarts == 2

\* Capacity of the trace channel; the program allocates make(chan *Trace, 100),
\* the model keeps the buffer small enough to fill.
QueueCap == 1

\* ------------------------------------------------------------- value sets

\* Caller threads, and those that run in Spec.
Procs == {"t1", "t2"}
Callers == {"t1"}

\* Trace.Kind strings.
strAssert == "assert"
strError == "error"
strWarning == "warning"
strInfo == "info"
strDebug == "debug"

\* Error values handed to Check and Fail; "nil" is the nil error.
Errs == {"nil", "e1"}

\* Argument lists of StartLog: a path that opens, no file, a path that does not
\* open.
StartArgs ==
  { [path |-> "ok.log", build |-> "1.0", console |-> TRUE, onLog |-> TRUE],
    [path |-> "ok.log", build |-> "2.0", console |-> FALSE, onLog |-> FALSE],
    [path |-> "", build |-> "1.0", console |-> TRUE, onLog |-> FALSE],
    [path |-> "/bad/x.log", build |-> "2.0", console |-> FALSE, onLog |-> TRUE] }

\* The nil channel and the nil *os.File.
Nil == 0

\* No trace held.
NoTrace == [id |-> 0, kind |-> "", err |-> "nil"]

\* No call in progress / no call returned yet.
NoCall == [op |-> "", err |-> "nil", path |-> "", build |-> "",
           console |-> FALSE, onLog |-> FALSE, ch |-> Nil, tr |-> NoTrace,
           inAssert |-> FALSE]
NoRet == [op |-> "", err |-> "nil", val |-> ""]

VARIABLES
  chTrace,    \* _chTrace: Nil or the id of a channel in chans
  file,       \* _file: Nil or the id of a handle in files
  config,     \* _build, _onLog, _console
  chans,      \* the channels ever made: [buf, closed]
  files,      \* the handles ever opened: TRUE while open
  fileLog,    \* every [tr, h]: trace tr written to the log file through handle h
  truncated,  \* how many of them os.O_TRUNC has since removed from the file
  stdout,     \* the traces written to the console, in write order
  onLogCalls, \* the traces handed to the OnLog callback, in call order
  pc,         \* each caller thread's position
  cur,        \* each caller thread's call in progress (arguments and locals)
  ret,        \* each caller thread's last returned call
  cons,       \* the logRoutine goroutines ever started
  panicked,   \* the thread whose panic ended the process, or ""
  nTraces,    \* traces constructed so far
  nStarts,    \* StartLog calls that got past the first test
  admitted,   \* history: [id, ch, f] of every trace sent, in admission order,
              \* with the channel it went to and the value of _file then
  rPc,        \* the field renderer's call: "off", "call" or "done"
  rIn,        \* the value handed to writeField
  rOut,       \* what writeField wrote to its io.Writer
  csv,        \* the CSVLog object: which CSVLog it is, c.file, c.mux, c.chWrite
  csvDisk,    \* every [row, text] written to the CSV file, in write order
  wr,         \* each thread's call on the CSVLog, and the CSV goroutine's loop
  nRows       \* rows handed to Write so far

vars == <<chTrace, file, config, chans, files, fileLog, truncated, stdout,
          onLogCalls,
          pc, cur, ret, cons, panicked, nTraces, nStarts, admitted,
          rPc, rIn, rOut, csv, csvDisk, wr, nRows>>

\* The state of the parts next to the trace pipeline.
render == <<rPc, rIn, rOut>>
csvlog == <<csv, csvDisk, wr, nRows>>
aux == <<render, csvlog>>

globals == <<chTrace, file, config>>
heap == <<chans, files>>
sinks == <<fileLog, truncated, stdout, onLogCalls>>

\* The process is dead.
Dead == panicked # ""

\* The log file's content.
Disk == SubSeq(fileLog, truncated + 1, Len(fileLog))
threads == <<pc, cur, ret>>

\* A payload value: its dynamic type (kind), its number n or its text s (a
\* sequence of characters), whether it is a pointer and a nil one, and for a
\* struct its fields.
Value(kind, n, s) ==
  [kind |-> kind, n |-> n, s |-> s, ptr |-> FALSE, isNil |-> FALSE,
   fields |-> <<>>]

\* The nil interface value.
NoValue == Value("nil", 0, <<>>)

\* ------------------------------------------------------------------- Init

\* The threads that run CSVLog code: the callers and the CSV goroutine.
Agents == Procs \cup {"g"}

\* No CSVLog: impl is "mux" (the CSVLog with a sync.Mutex) or "chan" (the one
\* with a chWrite channel), file is c.file (Nil or the handle), open whether
\* that handle is open, mux the thread holding c.mux, made whether c.chWrite is
\* allocated, shared whether OpenCSV has returned the object.
NoCsv == [impl |-> "", file |-> Nil, open |-> FALSE, mux |-> "", made |-> FALSE,
          shared |-> FALSE]

\* No call on the CSVLog.
NoWrite == [pc |-> "idle", id |-> 0, cells |-> <<>>, i |-> 0, op |-> "",
            ret |-> ""]

\* The field renderer is not in use.
RenderOff ==
  /\ rPc = "off"
  /\ rIn = NoValue
  /\ rOut = <<>>

\* No CSVLog has been opened.
CsvOff ==
  /\ csv = NoCsv
  /\ csvDisk = <<>>
  /\ wr = [a \in Agents |-> NoWrite]
  /\ nRows = 0

\* The package-level variables before any call: all zero values.
InitLog ==
  /\ chTrace = Nil
  /\ file = Nil
  /\ config = [build |-> "", onLog |-> FALSE, console |-> FALSE]
  /\ chans = <<>>
  /\ files = <<>>
  /\ fileLog = <<>>
  /\ truncated = 0
  /\ stdout = <<>>
  /\ onLogCalls = <<>>
  /\ pc = [p \in Procs |-> "idle"]
  /\ cur = [p \in Procs |-> NoCall]
  /\ ret = [p \in Procs |-> NoRet]
  /\ cons = <<>>
  /\ panicked = ""
  /\ nTraces = 0
  /\ nStarts = 0
  /\ admitted = <<>>

\* The program before any call.
Init == InitLog /\ RenderOff /\ CsvOff

\* A call of thread p returns: the thread is idle again and ret[p] holds what it got.
Return(p, r) ==
  /\ pc' = [pc EXCEPT ![p] = "idle"]
  /\ cur' = [cur EXCEPT ![p] = NoCall]
  /\ ret' = [ret EXCEPT ![p] = r]

\* Thread p moves to position l of its call, with the call's locals c.
Goto(p, l, c) ==
  /\ pc' = [pc EXCEPT ![p] = l]
  /\ cur' = [cur EXCEPT ![p] = c]
  /\ ret' = [ret EXCEPT ![p] = NoRet]

\* A read of a package-level variable that no lock orders after its writes:
\* it returns the variable's value, or the value this reader saw last.
RacyLoad(current, seen) == {current, seen}

\* ------------------------------------------------------------ StartLog

\* os.OpenFile succeeds on this path.
Openable(path) == path = "ok.log"

\* StartLog's first test: the trace channel is already allocated.
\* A StartLog that never finds the logger started.
AlreadyStarted_Never == FALSE

AlreadyStarted == chTrace # Nil

\* StartLog(logFile, build, console, onLog), up to "if nil != _chTrace".
StartLog(p, path, build, console, onLog) ==
  /\ ~Dead
  /\ pc[p] = "idle"
  /\ IF AlreadyStarted
       THEN /\ Return(p, [op |-> "StartLog", err |-> "nil", val |-> "nil"])
            /\ UNCHANGED nStarts
       ELSE /\ nStarts < MaxStarts
            /\ nStarts' = nStarts + 1
            /\ Goto(p, "sl_open", [NoCall EXCEPT !.op = "StartLog", !.path = path,
                                   !.build = build, !.console = console,
                                   !.onLog = onLog])
  /\ UNCHANGED <<globals, heap, sinks, cons, panicked, nTraces, admitted>>

\* An openLogFile whose error StartLog does not return on.
openLogFile_IgnoresError(p) ==
  /\ ~Dead
  /\ pc[p] = "sl_open"
  /\ IF cur[p].path # "" /\ Openable(cur[p].path)
       THEN /\ files' = Append(files, TRUE)
            /\ file' = Len(files) + 1
            /\ truncated' = Len(fileLog)
       ELSE UNCHANGED <<file, files, truncated>>
  /\ Goto(p, "sl_make", cur[p])
  /\ UNCHANGED <<chTrace, config, chans, fileLog, stdout, onLogCalls, cons, panicked,
                 nTraces, nStarts, admitted>>

\* openLogFile(logFile) and StartLog's "if nil != err { return err }".
openLogFile(p) ==
  /\ ~Dead
  /\ pc[p] = "sl_open"
  /\ IF cur[p].path = ""
       THEN /\ Goto(p, "sl_make", cur[p])
            /\ UNCHANGED <<file, files, truncated>>
       ELSE IF Openable(cur[p].path)
         THEN /\ files' = Append(files, TRUE)
              /\ file' = Len(files) + 1
              /\ truncated' = Len(fileLog)
              /\ Goto(p, "sl_make", cur[p])
         ELSE /\ file' = Nil
              /\ Return(p, [op |-> "StartLog", err |-> "nil", val |-> "err"])
              /\ UNCHANGED <<files, truncated>>
  /\ UNCHANGED <<chTrace, config, chans, fileLog, stdout, onLogCalls, cons, panicked,
                 nTraces, nStarts, admitted>>

\* _chTrace = make(chan *Trace, 100)
StartMakeChan(p) ==
  /\ ~Dead
  /\ pc[p] = "sl_make"
  /\ chans' = Append(chans, [buf |-> <<>>, closed |-> FALSE])
  /\ chTrace' = Len(chans) + 1
  /\ Goto(p, "sl_go", [cur[p] EXCEPT !.ch = Len(chans) + 1])
  /\ UNCHANGED <<file, config, files, sinks, cons, panicked, nTraces, nStarts,
                 admitted>>

\* A StartLog that sets the configuration but starts no goroutine.
StartGo_NoGoroutine(p) ==
  /\ ~Dead
  /\ pc[p] = "sl_go"
  /\ config' = [build |-> cur[p].build, onLog |-> cur[p].onLog,
                console |-> cur[p].console]
  /\ Return(p, [op |-> "StartLog", err |-> "nil", val |-> "nil"])
  /\ UNCHANGED <<chTrace, file, heap, sinks, cons, panicked, nTraces, nStarts,
                 admitted>>

\* _build = build; _onLog = onLog; _console = console;
\* go logRoutine(build, console, onLog); return nil
StartGo(p) ==
  /\ ~Dead
  /\ pc[p] = "sl_go"
  /\ config' = [build |-> cur[p].build, onLog |-> cur[p].onLog,
                console |-> cur[p].console]
  /\ cons' = Append(cons, [pc |-> "load", ch |-> cur[p].ch, f |-> Nil,
                           tr |-> NoTrace])
  /\ Return(p, [op |-> "StartLog", err |-> "nil", val |-> "nil"])
  /\ UNCHANGED <<chTrace, file, heap, sinks, panicked, nTraces, nStarts, admitted>>

\* ---------------------------------------------------------- logRoutine

\* Goroutine k moves to position l.
ConsGoto(k, l, c, f, t) ==
  cons' = [cons EXCEPT ![k] = [pc |-> l, ch |-> c, f |-> f, tr |-> t]]

\* logRoutine's first evaluation of the channel operand of "<-_chTrace".
logRoutineLoad(k) ==
  /\ ~Dead
  /\ cons[k].pc = "load"
  /\ \E c \in RacyLoad(chTrace, cons[k].ch) :
       ConsGoto(k, "recv", c, Nil, NoTrace)
  /\ UNCHANGED <<globals, heap, sinks, threads, panicked, nTraces, nStarts,
                 admitted>>

\* A console test that leaves Debug traces to the configuration.
ToConsole_ConfigOnly(t) == config.console

\* writeLog's console test.
ToConsole(t) == config.console \/ t.kind = strDebug

\* writeLog: if true == _console || strDebug == trace.Kind { writeConsole(trace) }
writeConsole(t) == IF ToConsole(t) THEN Append(stdout, t) ELSE stdout

\* trace, more := <-ch on a channel that can deliver: the head of the buffer, or
\* more = false on a closed and drained channel, which ends logRoutine.  A
\* receive from a nil channel, or from an open empty one, does not return.
\* With a trace, writeLog begins: the console part.
logRoutineRecv(k) ==
  /\ ~Dead
  /\ cons[k].pc = "recv"
  /\ cons[k].ch # Nil
  /\ LET c == cons[k].ch IN
       IF chans[c].buf # <<>>
         THEN /\ chans' = [chans EXCEPT ![c].buf = Tail(@)]
              /\ stdout' = writeConsole(Head(chans[c].buf))
              /\ ConsGoto(k, "fchk", c, Nil, Head(chans[c].buf))
         ELSE /\ chans[c].closed
              /\ ConsGoto(k, "done", c, Nil, NoTrace)
              /\ UNCHANGED <<chans, stdout>>
  /\ UNCHANGED <<globals, files, fileLog, truncated, onLogCalls, threads,
                 panicked, nTraces, nStarts, admitted>>

\* writeLog: if nil != _file
writeLogFileTest(k) ==
  /\ ~Dead
  /\ cons[k].pc = "fchk"
  /\ IF file # Nil
       THEN ConsGoto(k, "fwrite", cons[k].ch, file, cons[k].tr)
       ELSE ConsGoto(k, "onlog", cons[k].ch, Nil, cons[k].tr)
  /\ UNCHANGED <<globals, heap, sinks, threads, panicked, nTraces, nStarts,
                 admitted>>

\* (*os.File).WriteString on handle h: the bytes reach the file when h is an open
\* handle; on a nil or closed handle it returns an error and writes nothing.
WriteString(h, t) ==
  IF h # Nil /\ files[h] THEN Append(fileLog, [tr |-> t, h |-> h]) ELSE fileLog

\* writeLog: _file.WriteString(trace.asString()); _file.WriteString("\n"); the
\* error WriteString returns is dropped.
writeLogFile(k) ==
  /\ ~Dead
  /\ cons[k].pc = "fwrite"
  /\ \E h \in RacyLoad(file, cons[k].f) : fileLog' = WriteString(h, cons[k].tr)
  /\ ConsGoto(k, "onlog", cons[k].ch, Nil, cons[k].tr)
  /\ UNCHANGED <<globals, heap, truncated, stdout, onLogCalls, threads, panicked,
                 nTraces, nStarts, admitted>>

\* writeLog: if nil != _onLog { _onLog(trace) }; then logRoutine loops and
\* evaluates the channel operand of its next receive.
writeLogOnLog(k) ==
  /\ ~Dead
  /\ cons[k].pc = "onlog"
  /\ onLogCalls' = IF config.onLog THEN Append(onLogCalls, cons[k].tr)
                   ELSE onLogCalls
  /\ \E c \in RacyLoad(chTrace, cons[k].ch) :
       ConsGoto(k, "recv", c, Nil, NoTrace)
  /\ UNCHANGED <<globals, heap, fileLog, truncated, stdout, threads, panicked,
                 nTraces, nStarts, admitted>>

\* ------------------------------------------------- logging entry points

\* What an entry point returns once its trace is sent.
Result(op, err) ==
  IF op = "Check" THEN [op |-> op, err |-> err, val |-> "true"]
  ELSE IF op = "Fail" THEN [op |-> op, err |-> err, val |-> err]
  ELSE NoRet

\* An entry point evaluates the operands of "_chTrace <- &Trace{...}": the
\* channel variable, then the new trace.
Enter(p, op, kind, err) ==
  /\ ~Dead
  /\ pc[p] = "idle"
  /\ nTraces < MaxEvents
  /\ nTraces' = nTraces + 1
  /\ Goto(p, "send", [NoCall EXCEPT !.op = op, !.err = err, !.ch = chTrace,
                      !.tr = [id |-> nTraces + 1, kind |-> kind, err |-> err]])
  /\ UNCHANGED <<globals, heap, sinks, cons, panicked, nStarts, admitted>>

\* An entry point that has nothing to log returns at once.
Skip(p, op, err, val) ==
  /\ ~Dead
  /\ pc[p] = "idle"
  /\ Return(p, [op |-> op, err |-> err, val |-> val])
  /\ UNCHANGED <<globals, heap, sinks, cons, panicked, nTraces, nStarts, admitted>>

\* A Check that logs a nil error too.
Check_LogsNil(p, err) == Enter(p, "Check", strError, err)

\* Check(err, a...)
Check(p, err) ==
  IF err # "nil" THEN Enter(p, "Check", strError, err)
  ELSE Skip(p, "Check", err, "false")

\* A Fail that logs a nil error too.
Fail_AlwaysLogs(p, err) == Enter(p, "Fail", strError, err)

\* Fail(err, a...)
Fail(p, err) ==
  IF err # "nil" THEN Enter(p, "Fail", strError, err)
  ELSE Skip(p, "Fail", err, err)

\* Warning(a...)
Warning(p) == Enter(p, "Warning", strWarning, "nil")

\* Info(a...)
Info(p) == Enter(p, "Info", strInfo, "nil")

\* Debug(a...)
Debug(p) == Enter(p, "Debug", strDebug, "nil")

\* A send that gives up on a full channel: select { case ch <- t: default: }.
Send_DropsWhenFull(p) ==
  /\ ~Dead
  /\ pc[p] = "send"
  /\ cur[p].ch # Nil
  /\ LET c == cur[p].ch IN
       IF chans[c].closed
         THEN /\ panicked' = p
              /\ UNCHANGED <<chans, admitted, threads>>
         ELSE /\ IF Len(chans[c].buf) < QueueCap
                   THEN /\ chans' = [chans EXCEPT ![c].buf = Append(@, cur[p].tr)]
                        /\ admitted' = Append(admitted, [id |-> cur[p].tr.id,
                                                         ch |-> c, f |-> file])
                   ELSE UNCHANGED <<chans, admitted>>
              /\ Return(p, Result(cur[p].op, cur[p].err))
              /\ UNCHANGED panicked
  /\ UNCHANGED <<globals, files, sinks, cons, nTraces, nStarts>>

\* The send "ch <- trace" on the channel the entry point loaded: on a closed
\* channel it panics, on a channel with room it appends to the buffer and the
\* entry point returns.  On a nil channel, or a full one, it does not return.
Send(p) ==
  /\ ~Dead
  /\ pc[p] = "send"
  /\ cur[p].ch # Nil
  /\ LET c == cur[p].ch IN
       IF chans[c].closed
         THEN /\ panicked' = p
              /\ UNCHANGED <<chans, admitted, threads>>
         ELSE /\ Len(chans[c].buf) < QueueCap
              /\ chans' = [chans EXCEPT ![c].buf = Append(@, cur[p].tr)]
              /\ admitted' = Append(admitted, [id |-> cur[p].tr.id, ch |-> c, f |-> file])
              /\ Return(p, Result(cur[p].op, cur[p].err))
              /\ UNCHANGED panicked
  /\ UNCHANGED <<globals, files, sinks, cons, nTraces, nStarts>>

\* ----------------------------------------------------- CloseLog, Assert

\* Assert's t := &Trace{Kind: strAssert, Build: "<assert>", ...}
AssertTrace == [id |-> 0, kind |-> strAssert, err |-> "nil"]

\* A CloseLog that closes the channel without testing it for nil.
CloseEnter_NoNilTest(p, op, inAssert) ==
  /\ ~Dead
  /\ pc[p] = "idle"
  /\ Goto(p, "cl_close",
          [NoCall EXCEPT !.op = op, !.inAssert = inAssert,
                         !.tr = IF inAssert THEN AssertTrace ELSE NoTrace])
  /\ UNCHANGED <<globals, heap, sinks, cons, panicked, nTraces, nStarts, admitted>>

\* CloseLog(), up to "if nil != _chTrace".  inAssert: called from a failing Assert.
CloseEnter(p, op, inAssert) ==
  /\ ~Dead
  /\ pc[p] = "idle"
  /\ Goto(p, IF chTrace # Nil THEN "cl_close" ELSE "cl_fchk",
          [NoCall EXCEPT !.op = op, !.inAssert = inAssert,
                         !.tr = IF inAssert THEN AssertTrace ELSE NoTrace])
  /\ UNCHANGED <<globals, heap, sinks, cons, panicked, nTraces, nStarts, admitted>>

\* CloseLog()
CloseLog(p) == CloseEnter(p, "CloseLog", FALSE)

\* An Assert that calls CloseLog before it looks at the condition.
AssertCond_ClosesAnyway(p, condition) == CloseEnter(p, "AssertCond", ~condition)

\* Assert(condition, a...): a true condition does nothing; a false one builds
\* the trace and calls CloseLog.
AssertCond(p, condition) ==
  IF condition THEN Skip(p, "AssertCond", "nil", "")
  ELSE CloseEnter(p, "AssertCond", TRUE)

\* close(_chTrace): closing a nil channel, or a closed one, panics.
CloseChan(p) ==
  /\ ~Dead
  /\ pc[p] = "cl_close"
  /\ IF chTrace = Nil \/ chans[chTrace].closed
       THEN /\ panicked' = p
            /\ UNCHANGED <<chans, threads>>
       ELSE /\ chans' = [chans EXCEPT ![chTrace].closed = TRUE]
            /\ Goto(p, "cl_nil", cur[p])
            /\ UNCHANGED panicked
  /\ UNCHANGED <<globals, files, sinks, cons, nTraces, nStarts, admitted>>

\* A CloseLog that leaves the closed channel in _chTrace.
CloseNilChan_KeepsChannel(p) ==
  /\ ~Dead
  /\ pc[p] = "cl_nil"
  /\ Goto(p, "cl_fchk", cur[p])
  /\ UNCHANGED <<globals, heap, sinks, cons, panicked, nTraces, nStarts,
                 admitted>>

\* _chTrace = nil
CloseNilChan(p) ==
  /\ ~Dead
  /\ pc[p] = "cl_nil"
  /\ chTrace' = Nil
  /\ Goto(p, "cl_fchk", cur[p])
  /\ UNCHANGED <<file, config, heap, sinks, cons, panicked, nTraces, nStarts,
                 admitted>>

\* CloseLog's end: it returns to its caller, and a failing Assert goes on to
\* panic(t.asString()).
CloseReturn(p) ==
  IF cur[p].inAssert
    THEN /\ panicked' = p
         /\ UNCHANGED threads
    ELSE /\ Return(p, [op |-> "CloseLog", err |-> "nil", val |-> ""])
         /\ UNCHANGED panicked

\* if nil != _file
CloseFileTest(p) ==
  /\ ~Dead
  /\ pc[p] = "cl_fchk"
  /\ IF file # Nil
       THEN /\ Goto(p, "cl_fclose", cur[p])
            /\ UNCHANGED panicked
       ELSE CloseReturn(p)
  /\ UNCHANGED <<globals, heap, sinks, cons, nTraces, nStarts, admitted>>

\* _file.Close(): on a nil or closed handle it returns an error, which is dropped.
CloseFile(p) ==
  /\ ~Dead
  /\ pc[p] = "cl_fclose"
  /\ files' = IF file # Nil THEN [files EXCEPT ![file] = FALSE] ELSE files
  /\ Goto(p, "cl_fnil", cur[p])
  /\ UNCHANGED <<globals, chans, sinks, cons, panicked, nTraces, nStarts,
                 admitted>>

\* _file = nil, and CloseLog returns.
CloseNilFile(p) ==
  /\ ~Dead
  /\ pc[p] = "cl_fnil"
  /\ file' = Nil
  /\ CloseReturn(p)
  /\ UNCHANGED <<chTrace, config, heap, sinks, cons, nTraces, nStarts, admitted>>

\* ------------------------------------------------------------------ Next

Next ==
  \/ \E p \in Callers, a \in StartArgs :
        StartLog(p, a.path, a.build, a.console, a.onLog) /\ UNCHANGED aux
  \/ \E p \in Callers : openLogFile(p) /\ UNCHANGED aux
  \/ \E p \in Callers : StartMakeChan(p) /\ UNCHANGED aux
  \/ \E p \in Callers : StartGo(p) /\ UNCHANGED aux
  \/ \E k \in DOMAIN cons : logRoutineLoad(k) /\ UNCHANGED aux
  \/ \E k \in DOMAIN cons : logRoutineRecv(k) /\ UNCHANGED aux
  \/ \E k \in DOMAIN cons : writeLogFileTest(k) /\ UNCHANGED aux
  \/ \E k \in DOMAIN cons : writeLogFile(k) /\ UNCHANGED aux
  \/ \E k \in DOMAIN cons : writeLogOnLog(k) /\ UNCHANGED aux
  \/ \E p \in Callers, err \in Errs : Check(p, err) /\ UNCHANGED aux
  \/ \E p \in Callers, err \in Errs : Fail(p, err) /\ UNCHANGED aux
  \/ \E p \in Callers : Warning(p) /\ UNCHANGED aux
  \/ \E p \in Callers : Info(p) /\ UNCHANGED aux
  \/ \E p \in Callers : Debug(p) /\ UNCHANGED aux
  \/ \E p \in Callers : Send(p) /\ UNCHANGED aux
  \/ \E p \in Callers : CloseLog(p) /\ UNCHANGED aux
  \/ \E p \in Callers, condition \in BOOLEAN : AssertCond(p, condition) /\ UNCHANGED aux
  \/ \E p \in Callers : CloseChan(p) /\ UNCHANGED aux
  \/ \E p \in Callers : CloseNilChan(p) /\ UNCHANGED aux
  \/ \E p \in Callers : CloseFileTest(p) /\ UNCHANGED aux
  \/ \E p \in Callers : CloseFile(p) /\ UNCHANGED aux
  \/ \E p \in Callers : CloseNilFile(p) /\ UNCHANGED aux

Spec == Init /\ [][Next]_vars

\* --------------------------------------------- two calling threads
\* The package API called from two threads at once.  The first thread owns
\* the start of the logger on the log file, the second logs warnings, and both
\* close the logger or fail an Assert; every statement of one thread is
\* interleaved with those of the other and of the logRoutine goroutines.
Starter == "t1"
Producer == "t2"

NextMT ==
  \/ StartLog(Starter, "ok.log", "1.0", TRUE, TRUE) /\ UNCHANGED aux
  \/ openLogFile(Starter) /\ UNCHANGED aux
  \/ StartMakeChan(Starter) /\ UNCHANGED aux
  \/ StartGo(Starter) /\ UNCHANGED aux
  \/ \E k \in DOMAIN cons : logRoutineLoad(k) /\ UNCHANGED aux
  \/ \E k \in DOMAIN cons : logRoutineRecv(k) /\ UNCHANGED aux
  \/ \E k \in DOMAIN cons : writeLogFileTest(k) /\ UNCHANGED aux
  \/ \E k \in DOMAIN cons : writeLogFile(k) /\ UNCHANGED aux
  \/ \E k \in DOMAIN cons : writeLogOnLog(k) /\ UNCHANGED aux
  \/ Warning(Producer) /\ UNCHANGED aux
  \/ Send(Producer) /\ UNCHANGED aux
  \/ \E p \in Procs : CloseLog(p) /\ UNCHANGED aux
  \/ \E p \in Procs : AssertCond(p, FALSE) /\ UNCHANGED aux
  \/ \E p \in Procs : CloseChan(p) /\ UNCHANGED aux
  \/ \E p \in Procs : CloseNilChan(p) /\ UNCHANGED aux
  \/ \E p \in Procs : CloseFileTest(p) /\ UNCHANGED aux
  \/ \E p \in Procs : CloseFile(p) /\ UNCHANGED aux
  \/ \E p \in Procs : CloseNilFile(p) /\ UNCHANGED aux

SpecMT == Init /\ [][NextMT]_vars

\* ------------------------------------------------- the field renderer
\* writeField and writeUnknownField of the reflection renderer.  The io.Writer
\* is the sequence of the pieces written to it: single characters, and a
\* struct field's name as one piece.

\* The largest number a payload value carries.
MaxNum == 12

Digit == <<"0", "1", "2", "3", "4", "5", "6", "7", "8", "9">>
HexDigit == Digit \o <<"a", "b", "c", "d", "e", "f">>

\* fmt's %d of a number n >= 0.
RECURSIVE Itoa(_)
Itoa(n) == IF n < 10 THEN <<Digit[n + 1]>>
           ELSE Itoa(n \div 10) \o <<Digit[(n % 10) + 1]>>

\* fmt's %x of a number n >= 0.
RECURSIVE Hex(_)
Hex(n) == IF n < 16 THEN <<HexDigit[n + 1]>>
          ELSE Hex(n \div 16) \o <<HexDigit[(n % 16) + 1]>>

\* strings.Contains(v, " ")
ContainsSpace(v) == \E i \in DOMAIN v : v[i] = " "

\* isInterfaceNil(o): the nil interface, or a nil pointer.
isInterfaceNil(o) == o.kind = "nil" \/ (o.ptr /\ o.isNil)

\* The kinds writeField's type switch has a case for.
SwitchKinds == {"error", "string", "time", "int", "uint8", "uint32", "Hex32",
                "uint16", "uuid", "bool", "duration"}

\* writeField's cases for the kinds of its type switch.
writeScalar(v) ==
  CASE v.kind = "error" -> <<"'", "e", "r", "r", "o", "r", ":", " ">> \o v.s \o <<"'">>
    [] v.kind = "string" -> IF ContainsSpace(v.s) THEN <<"'">> \o v.s \o <<"'">>
                            ELSE v.s
    [] v.kind = "time" -> v.s
    [] v.kind \in {"int", "uint8", "uint32", "uint16"} -> Itoa(v.n)
    [] v.kind = "Hex32" -> <<"0", "x">> \o Hex(v.n)
    [] v.kind = "uuid" -> v.s
    [] v.kind = "bool" -> IF v.n # 0 THEN <<"t", "r", "u", "e">>
                          ELSE <<"f", "a", "l", "s", "e">>
    [] v.kind = "duration" -> Itoa(v.n * 1000) \o <<"m", "s">>

\* v.Field(i).CanSet(): the struct was reached through a pointer and the field
\* is exported.
CanSet(o, i) == o.ptr /\ o.fields[i].exported

\* What writeUnknownField writes before a field's value: nothing for a "log" tag
\* that is empty, the tag and a colon for another tag, else the field's name
\* and a colon.
FieldLabel(f) ==
  IF f.found THEN (IF f.tag # "" THEN <<f.tag, ":">> ELSE <<>>)
  ELSE <<f.name, ":">>

RECURSIVE writeField(_, _)
RECURSIVE writeStructFields(_, _, _)

\* writeUnknownField's loop "for i := 0; i < t.NumField(); i++", from field i on.
writeStructFields(o, i, delim) ==
  IF i > Len(o.fields) THEN <<>>
  ELSE LET f == o.fields[i] IN
    IF ~CanSet(o, i) \/ (f.found /\ f.tag = "hide")
      THEN writeStructFields(o, i + 1, delim)
      ELSE FieldLabel(f) \o writeField(f.val, delim)
             \o (IF i < Len(o.fields) THEN <<delim>> ELSE <<>>)
             \o writeStructFields(o, i + 1, delim)

\* writeUnknownField(w, o, delim)
writeUnknownField(o, delim) ==
  IF ~isInterfaceNil(o)
    THEN IF o.kind = "struct" THEN writeStructFields(o, 1, delim)
         ELSE o.s
    ELSE <<"<nil>">>

\* writeField(w, o, delim)
writeField(o, delim) ==
  IF isInterfaceNil(o) THEN <<"<nil>">>
  ELSE IF o.kind \in SwitchKinds THEN writeScalar(o)
  ELSE writeUnknownField(o, delim)

\* Values the renderer is given: one of every kind of the type switch, kinds it
\* has no case for, and below them structs of two fields.
Scalars ==
  {NoValue,
   Value("error", 0, <<"e", "1">>),
   Value("string", 0, <<"a", " ", "b">>),
   Value("string", 0, <<"a", "b">>),
   Value("time", 0, <<"M", "o", "n">>),
   Value("int", 3, <<>>), Value("int", MaxNum, <<>>),
   Value("uint8", 7, <<>>), Value("uint32", 0, <<>>), Value("uint16", 9, <<>>),
   Value("Hex32", MaxNum, <<>>),
   Value("uuid", 0, <<"u", "-", "1">>),
   Value("bool", 1, <<>>), Value("bool", 0, <<>>),
   Value("duration", 2, <<>>),
   Value("float64", 0, <<"1", ".", "5">>),
   Value("slice", 0, <<"[", "1", "]">>)}

\* A struct field: its name, its `log:"..."` tag if it has one, whether it is
\* exported, and its value.
Field(name, found, tag, exported, val) ==
  [name |-> name, found |-> found, tag |-> tag, exported |-> exported,
   val |-> val]

NameFields ==
  {Field("Name", t.found, t.tag, TRUE, Value("string", 0, s)) :
     t \in {[found |-> FALSE, tag |-> ""], [found |-> TRUE, tag |-> "hide"],
            [found |-> TRUE, tag |-> "n"]},
     s \in {<<"a", " ", "b">>, <<"a", "b">>}}

CountFields ==
  {Field("Count", t.found, t.tag, e, v) :
     t \in {[found |-> FALSE, tag |-> ""], [found |-> TRUE, tag |-> "hide"],
            [found |-> TRUE, tag |-> ""]},
     e \in BOOLEAN,
     v \in {Value("int", 3, <<>>), Value("float64", 0, <<"1", ".", "5">>)}}

\* A struct value (ptr FALSE) or a pointer to one, nil or not.
Struct(fields, ptr, isNil) ==
  [kind |-> "struct", n |-> 0, s |-> <<>>, ptr |-> ptr, isNil |-> isNil,
   fields |-> fields]

Structs ==
  {Struct(fs, ptr, FALSE) :
     fs \in {<<a, b>> : a \in NameFields, b \in CountFields}
              \cup {<<b, a>> : a \in NameFields, b \in CountFields},
     ptr \in BOOLEAN}
  \cup {Struct(<<>>, TRUE, TRUE)}

RenderInputs == Scalars \cup Structs

\* The renderer is about to be called with one of the values.
InitRender ==
  /\ InitLog
  /\ CsvOff
  /\ rPc = "call"
  /\ rIn \in RenderInputs
  /\ rOut = <<>>

\* The call writeField(w, o, " ") that writeFields makes for a payload value.
RenderField ==
  /\ rPc = "call"
  /\ rOut' = writeField(rIn, " ")
  /\ rPc' = "done"
  /\ UNCHANGED <<rIn, globals, heap, sinks, threads, cons, panicked, nTraces,
                 nStarts, admitted, csvlog>>

\* writeFields(w, t, delim) over the payload data, from value i on.
RECURSIVE writeFields(_, _, _)
writeFields(data, i, delim) ==
  IF i > Len(data) THEN <<>>
  ELSE writeField(data[i], delim)
         \o (IF i < Len(data) THEN <<delim>> ELSE <<>>)
         \o writeFields(data, i + 1, delim)

\* A payload of two values: the given one, and an int after it.
Payload(o) == <<o, Value("int", 3, <<>>)>>

\* writeFields(w, t, " ") for a trace whose data is the two-value payload.
RenderFields ==
  /\ rPc = "call"
  /\ rOut' = writeFields(Payload(rIn), 1, " ")
  /\ rPc' = "fields"
  /\ UNCHANGED <<rIn, globals, heap, sinks, threads, cons, panicked, nTraces,
                 nStarts, admitted, csvlog>>

NextRender == RenderField \/ RenderFields

SpecRender == InitRender /\ [][NextRender]_vars

\* ------------------------------------------------------- the CSV writer
\* CSVLog in its two forms: "mux" serializes Write and Close with c.mux, "chan"
\* hands each row to a goroutine over the unbuffered channel c.chWrite.  A row
\* is written one WriteString at a time: a cell, a tab, the final newline.

\* Write calls made on the CSVLog, the header row not counted.
MaxRows == 2

Impls == {"mux", "chan"}
CsvPaths == {"ok.csv", "/bad/x.csv"}

\* os.OpenFile succeeds on this path.
CsvOpenable(path) == path = "ok.csv"

Headers == <<Value("string", 0, <<"h", "1">>), Value("string", 0, <<"h", "2">>)>>

Rows ==
  {<<Value("string", 0, <<"a">>), Value("int", 3, <<>>)>>,
   <<Value("Hex32", MaxNum, <<>>), Value("duration", 2, <<>>)>>,
   <<Value("bool", 1, <<>>)>>,
   <<Value("int", 3, <<>>), Value("float64", 0, <<"1", ".", "5">>)>>}

\* The kinds the type switch of Write (mux) or write (chan) has a case for.
CsvKinds(impl) ==
  {"string", "int", "uint8", "uint32", "Hex32", "uint16", "duration"}
    \cup (IF impl = "mux" THEN {"bool"} ELSE {})

\* The text a case of the type switch writes for v.
csvFormat(impl, v) ==
  CASE v.kind = "string" -> v.s
    [] v.kind \in {"int", "uint8", "uint32", "uint16"} -> Itoa(v.n)
    [] v.kind = "Hex32" -> <<"0", "x">> \o Hex(v.n)
    [] v.kind = "bool" -> IF v.n # 0 THEN <<"t", "r", "u", "e">>
                          ELSE <<"f", "a", "l", "s", "e">>
    [] v.kind = "duration" -> IF impl = "mux" THEN Itoa(v.n) \o <<" ", "m", "s">>
                              ELSE Itoa(v.n) \o <<"m", "s">>

\* c.file.WriteString(text) while writing row id: the text reaches the file
\* when c.file is an open handle; on a nil or closed one it returns an error,
\* which is dropped.
CsvWriteString(id, text) ==
  IF csv.file # Nil /\ csv.open THEN Append(csvDisk, [row |-> id, text |-> text])
  ELSE csvDisk

\* Agent a moves to position l of its call.
WrGoto(a, l) == wr' = [wr EXCEPT ![a].pc = l]

\* Agent a's call returns r.
WrReturn(a, r) == wr' = [wr EXCEPT ![a] = [NoWrite EXCEPT !.ret = r]]

\* Where the loop over the cells goes from cell i on: the next cell, or the
\* newline after the last.
RowPos(w, i) == IF i <= Len(w.cells) THEN "w_cell" ELSE "w_nl"

\* The frame of a CSV step that does not touch the trace pipeline.
CsvOnly == UNCHANGED <<globals, heap, sinks, threads, cons, panicked, nTraces,
                       nStarts, admitted, render>>

\* OpenCSV(path, headers), up to the call Check(err): c := new(CSVLog), the
\* os.OpenFile, and Check's entry.
OpenCSV(p, impl, path) ==
  /\ wr[p].pc = "idle"
  /\ csv = NoCsv
  /\ Check(p, IF CsvOpenable(path) THEN "nil" ELSE "e1")
  /\ csv' = IF CsvOpenable(path)
              THEN [NoCsv EXCEPT !.impl = impl, !.file = 1, !.open = TRUE]
              ELSE [NoCsv EXCEPT !.impl = impl]
  /\ wr' = [wr EXCEPT ![p] = [NoWrite EXCEPT !.pc = "o_check", !.op = "OpenCSV"]]
  /\ UNCHANGED <<csvDisk, nRows, render>>

\* OpenCSV after Check(err) has returned: with true it returns (nil, err) and
\* the object is dropped; with false it makes the channel and starts the
\* goroutine ("chan"), and calls c.Write(headers).
OpenCSVChecked(p) ==
  /\ ~Dead
  /\ wr[p].pc = "o_check"
  /\ pc[p] = "idle"
  /\ IF ret[p].val = "true"
       THEN /\ csv' = NoCsv
            /\ WrReturn(p, "err")
       ELSE /\ csv' = [csv EXCEPT !.made = (csv.impl = "chan")]
            /\ wr' = [wr EXCEPT
                 ![p] = [pc |-> IF csv.impl = "mux" THEN "w_lock" ELSE "w_send",
                         id |-> 0, cells |-> Headers, i |-> 0, op |-> "OpenCSV",
                         ret |-> ""],
                 !["g"] = IF csv.impl = "chan"
                            THEN [NoWrite EXCEPT !.pc = "g_recv", !.op = "logRoutine"]
                            ELSE @]
  /\ UNCHANGED <<csvDisk, nRows>>
  /\ CsvOnly

\* c.Write(row) by a thread that holds the object: c.mux.Lock() comes next
\* ("mux"), or the test of c.chWrite and the send ("chan").
CSVLogWrite(p, row) ==
  /\ ~Dead
  /\ wr[p].pc = "idle"
  /\ pc[p] = "idle"
  /\ csv.shared
  /\ nRows < MaxRows
  /\ nRows' = nRows + 1
  /\ IF csv.impl = "chan" /\ ~csv.made
       THEN WrReturn(p, "")
       ELSE wr' = [wr EXCEPT
              ![p] = [pc |-> IF csv.impl = "mux" THEN "w_lock" ELSE "w_send",
                      id |-> nRows + 1, cells |-> row, i |-> 0, op |-> "Write",
                      ret |-> ""]]
  /\ UNCHANGED <<csv, csvDisk>>
  /\ CsvOnly

\* A Lock that does not wait: Write and Close without mutual exclusion.
CsvLock_NoWait(a) ==
  /\ ~Dead
  /\ wr[a].pc \in {"w_lock", "c_lock"}
  /\ csv' = [csv EXCEPT !.mux = a]
  /\ WrGoto(a, IF wr[a].pc = "w_lock" THEN "w_test" ELSE "c_ftest")
  /\ UNCHANGED <<csvDisk, nRows>>
  /\ CsvOnly

\* c.mux.Lock(): it waits until the mutex is free.
CsvLock(a) ==
  /\ ~Dead
  /\ wr[a].pc \in {"w_lock", "c_lock"}
  /\ csv.mux = ""
  /\ csv' = [csv EXCEPT !.mux = a]
  /\ WrGoto(a, IF wr[a].pc = "w_lock" THEN "w_test" ELSE "c_ftest")
  /\ UNCHANGED <<csvDisk, nRows>>
  /\ CsvOnly

\* Write ("mux"): if nil != c.file, then the loop over the row begins.
CsvWriteTest(a) ==
  /\ ~Dead
  /\ wr[a].pc = "w_test"
  /\ IF csv.file # Nil
       THEN wr' = [wr EXCEPT ![a].pc = RowPos(wr[a], 1), ![a].i = 1]
       ELSE WrGoto(a, "w_unlock")
  /\ UNCHANGED <<csv, csvDisk, nRows>>
  /\ CsvOnly

\* Assert(false, v) in the default case of the type switch: CloseLog() on the
\* trace logger, then the panic that ends the process.
CsvAssertFails(a) ==
  /\ chans' = IF chTrace # Nil THEN [chans EXCEPT ![chTrace].closed = TRUE]
              ELSE chans
  /\ chTrace' = Nil
  /\ files' = IF file # Nil THEN [files EXCEPT ![file] = FALSE] ELSE files
  /\ file' = Nil
  /\ panicked' = a
  /\ UNCHANGED <<config, sinks, threads, cons, nTraces, nStarts, admitted, render>>

\* One turn of "for i, o := range row": the type switch writes the cell, or
\* fails its assertion on a value it has no case for.
CsvWriteCell(a) ==
  /\ ~Dead
  /\ wr[a].pc = "w_cell"
  /\ LET w == wr[a]
         v == w.cells[w.i]
     IN IF v.kind \in CsvKinds(csv.impl)
          THEN /\ csvDisk' = CsvWriteString(w.id, csvFormat(csv.impl, v))
               /\ WrGoto(a, IF w.i < Len(w.cells) THEN "w_tab" ELSE "w_nl")
               /\ CsvOnly
          ELSE /\ CsvAssertFails(a)
               /\ UNCHANGED <<csvDisk, wr>>
  /\ UNCHANGED <<csv, nRows>>

\* if i < len(row)-1 { c.file.WriteString("\t") }
CsvWriteTab(a) ==
  /\ ~Dead
  /\ wr[a].pc = "w_tab"
  /\ csvDisk' = CsvWriteString(wr[a].id, <<"\t">>)
  /\ wr' = [wr EXCEPT ![a].pc = "w_cell", ![a].i = @ + 1]
  /\ UNCHANGED <<csv, nRows>>
  /\ CsvOnly

\* c.file.WriteString("\n"), the end of the row; the goroutine of "chan" goes
\* back to its receive.
CsvWriteNewline(a) ==
  /\ ~Dead
  /\ wr[a].pc = "w_nl"
  /\ csvDisk' = CsvWriteString(wr[a].id, <<"\n">>)
  /\ IF a = "g"
       THEN wr' = [wr EXCEPT ![a] = [NoWrite EXCEPT !.pc = "g_recv",
                                                    !.op = "logRoutine"]]
       ELSE WrGoto(a, "w_unlock")
  /\ UNCHANGED <<csv, nRows>>
  /\ CsvOnly

\* c.mux.Unlock() and the return of Write or Close; OpenCSV returns the object
\* after its c.Write(headers).
CsvUnlock(a) ==
  /\ ~Dead
  /\ wr[a].pc \in {"w_unlock", "c_unlock"}
  /\ csv' = [csv EXCEPT !.mux = "", !.shared = @ \/ wr[a].op = "OpenCSV"]
  /\ WrReturn(a, IF wr[a].op = "OpenCSV" THEN "handle" ELSE "")
  /\ UNCHANGED <<csvDisk, nRows>>
  /\ CsvOnly

\* c.chWrite <- row meets the goroutine's row, more := <-c.chWrite: the channel
\* has no buffer, so the send returns when the goroutine has the row.
CsvSend(p) ==
  /\ ~Dead
  /\ wr[p].pc = "w_send"
  /\ wr["g"].pc = "g_recv"
  /\ wr' = [wr EXCEPT
       ![p] = [NoWrite EXCEPT !.ret = IF wr[p].op = "OpenCSV" THEN "handle" ELSE ""],
       !["g"] = [pc |-> RowPos(wr[p], 1), id |-> wr[p].id, cells |-> wr[p].cells,
                 i |-> 1, op |-> "logRoutine", ret |-> ""]]
  /\ csv' = [csv EXCEPT !.shared = @ \/ wr[p].op = "OpenCSV"]
  /\ UNCHANGED <<csvDisk, nRows>>
  /\ CsvOnly

\* c.Close(): "mux" locks first; "chan" tests "nil == c.chWrite", which is
\* false for an allocated channel, so the channel is left open.
CSVLogClose(p) ==
  /\ ~Dead
  /\ wr[p].pc = "idle"
  /\ pc[p] = "idle"
  /\ csv.shared
  /\ IF csv.impl = "chan" /\ ~csv.made
       THEN /\ panicked' = p
            /\ UNCHANGED wr
       ELSE /\ wr' = [wr EXCEPT ![p] =
                        [NoWrite EXCEPT !.op = "Close",
                           !.pc = IF csv.impl = "mux" THEN "c_lock" ELSE "c_ftest"]]
            /\ UNCHANGED panicked
  /\ UNCHANGED <<csv, csvDisk, nRows, globals, heap, sinks, threads, cons, nTraces,
                 nStarts, admitted, render>>

\* Close's end: the unlock ("mux") or the return ("chan").
CsvCloseEnd(a) ==
  IF csv.impl = "mux" THEN WrGoto(a, "c_unlock") ELSE WrReturn(a, "")

\* Close: if nil != c.file
CsvCloseFileTest(a) ==
  /\ ~Dead
  /\ wr[a].pc = "c_ftest"
  /\ IF csv.file # Nil THEN WrGoto(a, "c_fclose") ELSE CsvCloseEnd(a)
  /\ UNCHANGED <<csv, csvDisk, nRows>>
  /\ CsvOnly

\* c.file.Close()
CsvCloseFile(a) ==
  /\ ~Dead
  /\ wr[a].pc = "c_fclose"
  /\ csv' = [csv EXCEPT !.open = FALSE]
  /\ WrGoto(a, "c_fnil")
  /\ UNCHANGED <<csvDisk, nRows>>
  /\ CsvOnly

\* c.file = nil
CsvCloseNilFile(a) ==
  /\ ~Dead
  /\ wr[a].pc = "c_fnil"
  /\ csv' = [csv EXCEPT !.file = Nil]
  /\ CsvCloseEnd(a)
  /\ UNCHANGED <<csvDisk, nRows>>
  /\ CsvOnly

\* The trace logger as OpenCSV may find it: never started, or started by
\* StartLog("ok.log", "1.0", true, onLog) with its goroutine not yet run.
InitCSV ==
  /\ \/ InitLog
     \/ /\ chTrace = 1 /\ chans = <<[buf |-> <<>>, closed |-> FALSE]>>
        /\ file = 1 /\ files = <<TRUE>>
        /\ config = [build |-> "1.0", onLog |-> TRUE, console |-> TRUE]
        /\ fileLog = <<>> /\ truncated = 0 /\ stdout = <<>> /\ onLogCalls = <<>>
        /\ pc = [p \in Procs |-> "idle"]
        /\ cur = [p \in Procs |-> NoCall]
        /\ ret = [p \in Procs |-> NoRet]
        /\ cons = <<[pc |-> "load", ch |-> 1, f |-> Nil, tr |-> NoTrace]>>
        /\ panicked = "" /\ nTraces = 0 /\ nStarts = 1 /\ admitted = <<>>
  /\ RenderOff
  /\ CsvOff

NextCSV ==
  \/ \E p \in Procs, impl \in Impls, path \in CsvPaths : OpenCSV(p, impl, path)
  \/ \E p \in Procs : Send(p) /\ UNCHANGED aux
  \/ \E p \in Procs : OpenCSVChecked(p)
  \/ \E p \in Procs, row \in Rows : CSVLogWrite(p, row)
  \/ \E a \in Agents : CsvLock(a)
  \/ \E a \in Agents : CsvWriteTest(a)
  \/ \E a \in Agents : CsvWriteCell(a)
  \/ \E a \in Agents : CsvWriteTab(a)
  \/ \E a \in Agents : CsvWriteNewline(a)
  \/ \E a \in Agents : CsvUnlock(a)
  \/ \E p \in Procs : CsvSend(p)
  \/ \E p \in Procs : CSVLogClose(p)
  \/ \E a \in Agents : CsvCloseFileTest(a)
  \/ \E a \in Agents : CsvCloseFile(a)
  \/ \E a \in Agents : CsvCloseNilFile(a)

SpecCSV == InitCSV /\ [][NextCSV]_vars

\* ---------------------------------------------------------------- claims

\* The ids of the traces in a sequence of records with a tr field.
WrittenIds == {fileLog[i].tr.id : i \in DOMAIN fileLog}

\* The place of trace id in the admission order (0: not admitted).
AdmissionIndex(id) ==
  IF \E i \in DOMAIN admitted : admitted[i].id = id
    THEN CHOOSE i \in DOMAIN admitted : admitted[i].id = id
    ELSE 0

\* Every trace admitted while a log file was open has been written to the file.
AllAdmittedWritten ==
  \A i \in DOMAIN admitted : admitted[i].f # Nil => admitted[i].id \in WrittenIds

\* C1: the traces in the log file stand in the order in which they were
\* admitted to the dispatch queue (no reordering).
C1_FileInAdmissionOrder ==
  \A i, j \in DOMAIN Disk :
    i < j => AdmissionIndex(Disk[i].tr.id) < AdmissionIndex(Disk[j].tr.id)

\* C2: drain completeness.  A file handle is never closed, and CloseLog never
\* returns, while a trace admitted under that handle is still unwritten.
C2_DrainBeforeClose ==
  /\ \A i \in DOMAIN admitted :
       (admitted[i].f # Nil /\ ~files[admitted[i].f])
         => admitted[i].id \in WrittenIds
  /\ \A p \in Procs : ret[p].op = "CloseLog" => AllAdmittedWritten

\* C3: when a failing Assert ends the process, every trace admitted before it
\* has been written to the file.
C3_AssertFlushes ==
  \A p \in Procs : (panicked = p /\ cur[p].inAssert) => AllAdmittedWritten

\* C4: a logging entry point called while the logger is not started returns; it
\* is never left in a send on a nil channel, which never completes.
C4_NoSendOnNil ==
  \A p \in Procs : ~(pc[p] = "send" /\ cur[p].ch = Nil)

\* Thread p takes this step.
StepOf(p) ==
  \/ pc'[p] # pc[p]
  \/ ret'[p] # ret[p]
  \/ (panicked = "" /\ panicked' = p)

\* Thread p returns from a StartLog call in this step.
StartLogReturns(p, val) ==
  /\ StepOf(p)
  /\ pc'[p] = "idle"
  /\ ret'[p] = [op |-> "StartLog", err |-> "nil", val |-> val]

\* C5: a StartLog whose file cannot be opened returns the error and leaves the
\* logger uninitialized: no channel, no file handle, no goroutine, the
\* configuration untouched.  A StartLog called next is not refused, and one
\* whose path opens ends with the logger started.
C5_FailedStartThenRetry ==
  [][\A p \in Procs :
       /\ (pc[p] = "sl_open" /\ cur[p].path # "" /\ ~Openable(cur[p].path)
             /\ StepOf(p))
            => /\ StartLogReturns(p, "err")
               /\ chTrace' = Nil /\ file' = Nil
               /\ UNCHANGED <<config, chans, files, cons, sinks>>
       /\ (ret[p].val = "err" /\ cur'[p].op = "StartLog") => pc'[p] = "sl_open"
       /\ (pc[p] = "sl_go" /\ Openable(cur[p].path) /\ StepOf(p))
            => /\ StartLogReturns(p, "nil")
               /\ chTrace' # Nil /\ ~chans'[chTrace'].closed
               /\ file' # Nil /\ files'[file']
               /\ Len(cons') = Len(cons) + 1
  ]_vars

\* C5's case: a start failed on its file, and the start after it succeeded.
C5_Witness ==
  /\ nStarts = 2 /\ Len(chans) = 1 /\ chTrace = 1
  /\ file # Nil
  /\ ret["t1"] = [op |-> "StartLog", err |-> "nil", val |-> "nil"]

\* C6: a step of a CloseLog call made while _chTrace and _file are both nil
\* (the logger is closed) changes no logger state, closes nothing and does
\* not panic.
C6_SecondCloseIsNoop ==
  [][\A p \in Procs :
       (StepOf(p) /\ (cur[p].op = "CloseLog" \/ cur'[p].op = "CloseLog")
          /\ chTrace = Nil /\ file = Nil)
         => (UNCHANGED <<globals, heap, sinks, cons>> /\ panicked' = "")
  ]_vars

\* C6's case: the one start has been closed, file included, and a further
\* CloseLog has returned.
C6_Witness ==
  /\ nStarts = 1 /\ Len(files) = 1 /\ ~files[1] /\ chans[1].closed
  /\ chTrace = Nil /\ file = Nil
  /\ pc["t1"] = "cl_fchk" /\ cur["t1"].op = "CloseLog"

\* C7: StartLog called while the trace channel is allocated returns nil at
\* once and changes nothing: no file opened or truncated, no channel made, no
\* goroutine started, the configuration kept.
C7_StartWhenStartedIsNoop ==
  [][\A p \in Procs :
       (pc[p] = "idle" /\ chTrace # Nil /\ StepOf(p)
          /\ (cur'[p].op = "StartLog" \/ ret'[p].op = "StartLog"))
         => /\ StartLogReturns(p, "nil")
            /\ UNCHANGED <<globals, heap, sinks, cons, panicked, nStarts>>
  ]_vars

\* C7's case: on the only start, a trace was sent and then StartLog was called
\* again and returned.
C7_Witness ==
  /\ nStarts = 1 /\ chTrace = 1 /\ Len(admitted) = 1
  /\ ret["t1"] = [op |-> "StartLog", err |-> "nil", val |-> "nil"]
  /\ config.build = "1.0"

\* The logger is started and no lifecycle call is in progress.
Started ==
  /\ chTrace # Nil
  /\ \A p \in Procs : pc[p] \in {"idle", "send"}

Returns(p, op) == StepOf(p) /\ pc'[p] = "idle" /\ ret'[p].op = op

\* This step sends exactly one trace: an Error trace that carries err.
SendsOneError(err) ==
  /\ Len(admitted') = Len(admitted) + 1
  /\ LET a == admitted'[Len(admitted')] IN
       /\ chans' = [chans EXCEPT ![a.ch].buf =
                      Append(@, [id |-> a.id, kind |-> strError, err |-> err])]
       /\ \A i \in DOMAIN admitted : admitted[i].id # a.id

\* C9: Check(nil) returns false and sends nothing; Check(err) returns true and
\* has sent exactly one Error trace with err.  No trace is written to the file
\* twice.
C9_Check ==
  /\ [][\A p \in Procs :
          Returns(p, "Check") =>
            IF ret'[p].err = "nil"
              THEN ret'[p].val = "false" /\ UNCHANGED <<chans, admitted, nTraces>>
              ELSE ret'[p].val = "true" /\ SendsOneError(ret'[p].err)
     ]_vars
  /\ [](\A i, j \in DOMAIN fileLog :
          fileLog[i].tr.id = fileLog[j].tr.id => i = j)

\* C9's case: Check(e1) has returned and its trace is in the file.
C9_Witness ==
  /\ ret["t1"] = [op |-> "Check", err |-> "e1", val |-> "true"]
  /\ \E i \in DOMAIN Disk : Disk[i].tr.kind = strError /\ Disk[i].tr.err = "e1"

C11_AssertEventWritten ==
  \A p \in Procs :
    (cur[p].inAssert /\ pc[p] = "cl_fclose")
      => /\ \E i \in DOMAIN stdout : stdout[i] = cur[p].tr
         /\ \E i \in DOMAIN fileLog : fileLog[i].tr = cur[p].tr

\* C12: no channel holds more than its capacity; a sender that finds its
\* channel full stays at its send with its trace, whatever step is taken; and a
\* sender leaves its send only by appending its trace to the channel.
C12_Backpressure ==
  /\ [](\A c \in DOMAIN chans : Len(chans[c].buf) <= QueueCap)
  /\ [][\A p \in Procs :
          (pc[p] = "send" /\ cur[p].ch # Nil
             /\ ~chans[cur[p].ch].closed
             /\ Len(chans[cur[p].ch].buf) = QueueCap)
            => (pc'[p] = "send" /\ cur'[p] = cur[p])
     ]_vars
  /\ [][\A p \in Procs :
          (pc[p] = "send" /\ pc'[p] # "send")
            => /\ chans' = [chans EXCEPT ![cur[p].ch].buf = Append(@, cur[p].tr)]
               /\ Len(admitted') = Len(admitted) + 1
               /\ admitted'[Len(admitted')].id = cur[p].tr.id
     ]_vars

\* C12's case: the open channel holds QueueCap traces and a sender with one
\* more trace waits at it.
C12_Witness ==
  /\ \E p \in Procs :
       /\ pc[p] = "send" /\ cur[p].ch # Nil
       /\ ~chans[cur[p].ch].closed
       /\ Len(chans[cur[p].ch].buf) = QueueCap
  /\ Len(admitted) = QueueCap

\* The goroutines that serve the current channel: receiving from it, or
\* writing a trace they took from it.
CurrentConsumers ==
  {k \in DOMAIN cons : /\ chTrace # Nil
                       /\ cons[k].ch = chTrace
                       /\ cons[k].pc \in {"recv", "fchk", "fwrite", "onlog"}}

\* C13: at most one goroutine serves the current channel.
C13_OneConsumer == Cardinality(CurrentConsumers) <= 1

\* C14: the goroutine that takes trace t from the channel writes t to the
\* console exactly when _console is set or t is a Debug trace, and writes
\* nothing else to it.
C14_ConsoleRouting ==
  [][\A k \in DOMAIN cons :
       (cons[k].pc = "recv" /\ cons'[k].pc = "fchk")
         => LET t == cons'[k].tr IN
              stdout' = IF config.console \/ t.kind = strDebug
                          THEN Append(stdout, t) ELSE stdout
  ]_vars

\* The traces taken from their channel.
Dequeued ==
  {admitted[i].id : i \in DOMAIN admitted} \
    UNION {{chans[c].buf[j].id : j \in DOMAIN chans[c].buf} : c \in DOMAIN chans}

\* C14's case: with the console off since the only start, a Debug trace is on
\* the console and another trace, taken from the channel, is not.
C14_Witness ==
  /\ nStarts = 1 /\ chTrace # Nil /\ ~config.console
  /\ \E i \in DOMAIN stdout : stdout[i].kind = strDebug
  /\ \E i \in DOMAIN admitted :
       /\ admitted[i].id \in Dequeued
       /\ \A j \in DOMAIN stdout : stdout[j].id # admitted[i].id

\* C15: the callback is called at most once for a trace, and for traces that
\* went through one channel it is called in the order they left the channel,
\* which is the order they were sent in.
C15_CallbackInDequeueOrder ==
  /\ \A i, j \in DOMAIN onLogCalls :
       onLogCalls[i].id = onLogCalls[j].id => i = j
  /\ \A i, j \in DOMAIN onLogCalls :
       (i < j /\ admitted[AdmissionIndex(onLogCalls[i].id)].ch
                   = admitted[AdmissionIndex(onLogCalls[j].id)].ch)
         => AdmissionIndex(onLogCalls[i].id) < AdmissionIndex(onLogCalls[j].id)

\* C16: an Assert with a true condition returns and changes nothing: no
\* global, channel, file, sink or goroutine, nothing sent, no panic.  Only a
\* failing Assert is ever inside CloseLog, and after the return the thread can
\* log and can call CloseLog.
C16_AssertTrueNoEffect ==
  /\ [][\A p \in Procs :
          Returns(p, "AssertCond")
            => UNCHANGED <<globals, heap, sinks, cons, panicked, nTraces,
                           admitted>>
     ]_vars
  /\ [](\A p \in Procs : cur[p].op = "AssertCond" => cur[p].inAssert)
  /\ [](\A p \in Procs :
          ret[p].op = "AssertCond"
            => /\ pc[p] = "idle"
               /\ ~Dead => ENABLED CloseLog(p)
               /\ (~Dead /\ nTraces < MaxEvents) => ENABLED Info(p))

\* C16's case: Assert(true) has returned on a started logger that holds a
\* sent trace.
C16_Witness ==
  /\ ret["t1"].op = "AssertCond"
  /\ chTrace # Nil /\ ~chans[chTrace].closed
  /\ Len(admitted) = 1
  /\ panicked = ""

\* The struct o without the fields whose tag is "hide".
WithoutHidden(o) ==
  [o EXCEPT !.fields = SelectSeq(o.fields,
                                 LAMBDA f : ~(f.found /\ f.tag = "hide"))]

\* C17: a rendered struct reads as the same struct without its hidden fields:
\* a hidden field adds no text and no delimiter.  So the pointer to
\* {Name: "a b", Count: 3 `log:"hide"`} renders as Name:'a b'.
C17_HiddenFieldOmitted ==
  (rPc = "done" /\ rIn.kind = "struct" /\ ~isInterfaceNil(rIn))
    => /\ rOut = writeUnknownField(WithoutHidden(rIn), " ")
       /\ (\E f \in NameFields, g \in CountFields :
             /\ rIn = Struct(<<f, g>>, TRUE, FALSE)
             /\ ~f.found /\ f.val.s = <<"a", " ", "b">>
             /\ g.found /\ g.tag = "hide" /\ g.exported /\ g.val.kind = "int")
            => rOut = <<"Name", ":", "'", "a", " ", "b", "'">>

\* C18: a value that is not nil, not of a kind of writeField's type switch and
\* not a struct is not rendered: nothing is written and the process ends in an
\* assertion failure.
C18_UnknownKindAsserts ==
  (rPc = "done" /\ ~isInterfaceNil(rIn)
     /\ rIn.kind \notin SwitchKinds \cup {"struct"})
    => (rOut = <<>> /\ panicked # "")

\* The texts written for row id, in write order.
RowTexts(id) ==
  LET q == SelectSeq(csvDisk, LAMBDA e : e.row = id)
  IN [n \in DOMAIN q |-> q[n].text]

Separators == {<<"\t">>, <<"\n">>}

\* C19: in the CSV file the writes of one row stand together, no write of
\* another row between them; a row gives way to the next only after its
\* newline; and within a row cells and separators alternate, the newline last.
C19_RowsContiguous ==
  /\ \A i, k \in DOMAIN csvDisk :
       (i < k /\ csvDisk[i].row = csvDisk[k].row)
         => \A j \in i..k : csvDisk[j].row = csvDisk[i].row
  /\ \A i \in DOMAIN csvDisk :
       (i < Len(csvDisk) /\ csvDisk[i].row # csvDisk[i + 1].row)
         => csvDisk[i].text = <<"\n">>
  /\ \A id \in 0..MaxRows :
       LET q == RowTexts(id) IN
         \A n \in DOMAIN q :
           /\ q[n] = <<"\n">> => n = Len(q)
           /\ (n % 2 = 0) => q[n] \in Separators
           /\ (n % 2 = 1 /\ n < Len(q)) => q[n] \notin Separators

\* C19's case: one Write has written part of its row, a cell and no newline
\* yet, while the Write of another thread waits for the mutex or for the
\* goroutine.
C19_Witness ==
  \E a \in Agents, q \in Procs :
    /\ a # q
    /\ wr[a].pc = "w_tab" /\ wr[a].id >= 1
    /\ csvDisk # <<>> /\ csvDisk[Len(csvDisk)].row = wr[a].id
    /\ wr[q].pc \in {"w_lock", "w_send"} /\ wr[q].id >= 1

\* C20: no OpenCSV is stopped for good inside its Check(err) by a trace logger
\* that is not started: the send on the nil _chTrace.
C20_OpenCSVReturns ==
  \A p \in Procs :
    ~(wr[p].pc = "o_check" /\ pc[p] = "send" /\ cur[p].ch = Nil)

\* C21: once CloseLog has closed the channel, the logRoutine goroutine ends: it
\* is never left in a receive on a nil channel, which never completes.
C21_ConsumerTerminates ==
  \A k \in DOMAIN cons : ~(cons[k].pc = "recv" /\ cons[k].ch = Nil)

\* C22: the file handle is used by the logRoutine goroutine alone, or after it
\* has ended, so no write is attempted on a closed handle: a goroutine that
\* has passed writeLog's nil test and is about to write holds an open handle.
C22_NoWriteOnClosedHandle ==
  \A k \in DOMAIN cons :
    cons[k].pc = "fwrite" => (cons[k].f # Nil /\ files[cons[k].f])

\* The number of traces channel c has accepted so far.
AdmittedTo(c) == Cardinality({i \in DOMAIN admitted : admitted[i].ch = c})

\* The step of thread p inside the call it is in.
CallStep(p) ==
  \/ openLogFile(p) \/ StartMakeChan(p) \/ StartGo(p)
  \/ Send(p)
  \/ CloseChan(p) \/ CloseNilChan(p) \/ CloseFileTest(p) \/ CloseFile(p)
  \/ CloseNilFile(p)

\* C23: with one calling thread, after a StartLog that succeeded every
\* logging call whose channel has accepted fewer traces than its capacity, and
\* the CloseLog after them, runs on: the call in progress always has a next
\* step (the send finds the channel open and with room), and nothing panics
\* but a failing Assert.
C23_SequentialRunCompletes ==
  /\ panicked # "" => cur[panicked].inAssert
  /\ \A p \in Callers :
       (/\ ~Dead
        /\ pc[p] # "idle"
        /\ pc[p] = "send" => (cur[p].ch # Nil /\ AdmittedTo(cur[p].ch) < QueueCap))
         => /\ ENABLED CallStep(p)
            /\ pc[p] = "send" =>
                 /\ ~chans[cur[p].ch].closed
                 /\ Len(chans[cur[p].ch].buf) < QueueCap

\* C23's case: one StartLog succeeded, a logging call sent its trace and
\* returned, and the CloseLog after it has returned, with no panic.
C23_Witness ==
  /\ nStarts = 1 /\ Len(chans) = 1 /\ Len(admitted) >= 1
  /\ chTrace = Nil /\ chans[1].closed
  /\ pc["t1"] = "idle" /\ ret["t1"].op = "CloseLog"
  /\ panicked = ""

\* C25: what the renderer wrote for a payload does not end with the delimiter
\* and has no two delimiters side by side, whether the payload is flat or a
\* struct with hidden or unsettable fields.
C25_SingleDelimiters ==
  rPc # "call" =>
    /\ rOut # <<>> => rOut[Len(rOut)] # " "
    /\ \A i \in 1..(Len(rOut) - 1) : ~(rOut[i] = " " /\ rOut[i + 1] = " ")

\* C26: a duration of n milliseconds is rendered as the decimal digits of n
\* followed by "ms".
C26_DurationInMilliseconds ==
  (rPc = "done" /\ rIn.kind = "duration")
    => rOut = Itoa(rIn.n) \o <<"m", "s">>

\* C29: after Close the CSV writer is quiescent: a Write called once Close has
\* closed the file and cleared c.file is a no-op, it sends no row to the
\* logRoutine goroutine, whose channel Close has closed.
C29_ClosedWriterIsQuiescent ==
  [][\A p \in Procs :
       (csv.shared /\ csv.file = Nil /\ wr[p].pc = "idle" /\ wr'[p].op = "Write")
         => wr'[p].pc # "w_send"
  ]_vars

\* StartLog has started the goroutine of channel c: the calls of the one
\* starting thread make channel c and start goroutine c, one after the other.
ConsumerStartedFor(c) == Len(cons) >= c

\* C24: StartLog starts the logRoutine goroutine before producers can see the
\* channel: no channel holds an accepted trace while the goroutine of its
\* StartLog has not been started.
C24_ConsumerBeforeQueueVisible ==
  \A c \in DOMAIN chans : chans[c].buf # <<>> => ConsumerStartedFor(c)

\* C27: an entry point that runs while another thread is in CloseLog does not
\* send on a channel CloseLog has closed: no Warning ends in the panic of a
\* send on a closed channel.
C27_NoSendOnClosedQueue ==
  \A p \in Procs : ~(panicked = p /\ pc[p] = "send" /\ cur[p].op = "Warning")

\* C28: two threads may be in CloseLog at once: the channel is closed once,
\* and no thread panics in close(_chTrace) on a channel the other thread has
\* closed or set to nil.
C28_ConcurrentCloseIsSafe ==
  \A p \in Procs : ~(panicked = p /\ pc[p] = "cl_close")

====
